---------------------------- MODULE Spec2Model ----------------------------
(***************************************************************************)
(* State-machine model of src/app.py, the Streamlit dashboard script.      *)
(*                                                                         *)
(* One process serves one browser session.  Streamlit executes the script  *)
(* from top to bottom once when the page opens and once more each time a   *)
(* sidebar widget changes; a run is single threaded, so a run is one       *)
(* atomic step.  The only state that survives a run is the st.cache_data   *)
(* slot of load_data and the widgets' session values.                      *)
(*                                                                         *)
(* Representation.                                                         *)
(*   - A cell of a data frame is a tuple: <<>> is NaN (a missing value),   *)
(*     <<v>> a present value.  A price ratio is <<n, d>>, the reduced      *)
(*     fraction n/d, with <<1, 0>> for +inf.                               *)
(*   - Prices are counted in 1/PriceUnit rupee, Profit_Margin in 1/10 of   *)
(*     that, so that Price * 0.3 is exact.  Arithmetic is exact: floating  *)
(*     point rounding is not modelled.                                     *)
(*   - A row is a function from column names to cells, a table a sequence  *)
(*     of rows.                                                            *)
(***************************************************************************)
EXTENDS Integers, Sequences, FiniteSets, TLC

VARIABLES
    file,               \* the CSV on disk: NoFile, or [header, rows]
    cache,              \* st.cache_data slot of load_data: <<>> or <<table>>
    fileReads,          \* number of pd.read_csv calls so far
    cacheWrites,        \* number of writes to the cache slot so far
    run,                \* "none" | "first" | "rerun": the last script run
    status,             \* "idle" | "ok" | "stopped" | "error": how it ended
    messages,           \* st.error / st.warning elements of load_data
    df,                 \* the script's df (line 65); <<>> when unbound
    selected_cities,    \* session value of the three multiselects
    selected_months,
    selected_diseases,
    price_range,        \* session value of the slider: <<lo, hi>>, or <<>>
    filtered_df,        \* lines 126-132
    charts              \* the four group-by-sum frames handed to plotly

vars == <<file, cache, fileReads, cacheWrites, run, status, messages, df,
          selected_cities, selected_months, selected_diseases, price_range,
          filtered_df, charts>>

-----------------------------------------------------------------------------
(* Bounds *)

MaxRows == 2
PriceUnit == 2

-----------------------------------------------------------------------------
(* Cells *)

NaN == <<>>
Val(v) == <<v>>
IsNull(c) == c = NaN

Abs(n) == IF n < 0 THEN -n ELSE n
Sign(n) == IF n < 0 THEN -1 ELSE IF n > 0 THEN 1 ELSE 0

RECURSIVE Gcd(_, _)
Gcd(a, b) == IF b = 0 THEN a ELSE Gcd(b, a % b)

\* Series - Series: NaN propagates.
CellSub(a, b) == IF IsNull(a) \/ IsNull(b) THEN NaN ELSE Val(a[1] - b[1])

\* Series * Series: NaN propagates.
CellMul(a, b) == IF IsNull(a) \/ IsNull(b) THEN NaN ELSE Val(a[1] * b[1])

\* What a cell operation that raises leaves behind; no operation of the
\* script on numeric columns does.
Raised == <<0, 0, 0>>

\* Scalar division that raises ZeroDivisionError on a zero divisor.
CellDivRaising(a, b) ==
    IF IsNull(a) \/ IsNull(b) THEN NaN
    ELSE IF b[1] = 0 THEN Raised
    ELSE LET g == Gcd(Abs(a[1]), Abs(b[1]))
         IN  <<(Sign(b[1]) * a[1]) \div g, Abs(b[1]) \div g>>

\* Series / Series is numpy true division: x/0 is +-inf, 0/0 is NaN, and no
\* exception is raised.
CellDiv(a, b) ==
    IF IsNull(a) \/ IsNull(b) THEN NaN
    ELSE IF b[1] = 0
         THEN IF a[1] = 0 THEN NaN ELSE <<Sign(a[1]), 0>>
         ELSE LET g == Gcd(Abs(a[1]), Abs(b[1]))
              IN  <<(Sign(b[1]) * a[1]) \div g, Abs(b[1]) \div g>>

-----------------------------------------------------------------------------
(* load_data, lines 24-63 *)

NoFile == [header |-> {}, rows |-> <<>>, exists |-> FALSE]

required_columns == <<"City", "Month", "Disease", "Medicine", "Orders", "Price">>

possible_names ==
    <<"Competitor_Price", "Competitor Price", "Comp_Price", "CompetitorPrice">>

DerivedColumns ==
    {"Price_Difference", "Price_Ratio", "Revenue", "Profit_Margin", "Total_Profit"}

\* Tenths of the price that make the margin: Price * 0.3.
MarginTenths == 3

\* A check that stops at the first absent column.
MissingFirstOnly(columns) ==
    LET all == SelectSeq(required_columns, LAMBDA col : col \notin columns)
    IN  IF all = <<>> THEN <<>> ELSE <<Head(all)>>

\* Line 31: the required columns absent from the header, in required order.
missing_columns(columns) ==
    SelectSeq(required_columns, LAMBDA col : col \notin columns)

\* Lines 38-44: the first accepted alias the header holds; "" is None.
RECURSIVE FirstPresent(_, _)
FirstPresent(names, columns) ==
    IF names = <<>> THEN ""
    ELSE IF Head(names) \in columns THEN Head(names)
    ELSE FirstPresent(Tail(names), columns)

\* The loop of lines 41-44 without its break: the last alias present.
RECURSIVE LastPresent(_, _)
LastPresent(names, columns) ==
    IF names = <<>> THEN ""
    ELSE IF names[Len(names)] \in columns THEN names[Len(names)]
    ELSE LastPresent(SubSeq(names, 1, Len(names) - 1), columns)

CompetitorColLast(columns) == LastPresent(possible_names, columns)

competitor_col(columns) == FirstPresent(possible_names, columns)

\* Lines 51-52: the values of the degraded mode.
DefaultPriceDifference == Val(0)

DefaultPriceRatioZero == <<0, 1>>

DefaultPriceRatio == <<1, 1>>

\* Lines 46-57: the five derived columns of one row.
Derived(r, comp) ==
    LET price == r["Price"]
        orders == r["Orders"]
        margin == IF IsNull(price) THEN NaN ELSE Val(MarginTenths * price[1])
    IN  [c \in DerivedColumns |->
            CASE c = "Price_Difference" ->
                    IF comp # "" THEN CellSub(r[comp], price)
                    ELSE DefaultPriceDifference
              [] c = "Price_Ratio" ->
                    IF comp # "" THEN CellDiv(price, r[comp])
                    ELSE DefaultPriceRatio
              [] c = "Revenue" -> CellMul(orders, price)
              [] c = "Profit_Margin" -> margin
              [] c = "Total_Profit" -> CellMul(margin, orders)]

EnrichRow(r, comp) ==
    LET d == Derived(r, comp)
    IN  [c \in DOMAIN r \cup DerivedColumns |->
            IF c \in DerivedColumns THEN d[c] ELSE r[c]]

\* Enrichment after a dropna() on the required columns.
EnrichDropNa(rows, comp) ==
    LET kept == SelectSeq(rows, LAMBDA r :
                    \A i \in DOMAIN required_columns :
                        ~IsNull(r[required_columns[i]]))
    IN  [i \in DOMAIN kept |-> EnrichRow(kept[i], comp)]

Enrich(rows, comp) == [i \in DOMAIN rows |-> EnrichRow(rows[i], comp)]

MissingMessage(cols) == [level |-> "error", what |-> "Missing required columns", columns |-> cols]
LoadErrorMessage == [level |-> "error", what |-> "Error loading data", columns |-> <<>>]
CompetitorWarning == [level |-> "warning", what |-> "Competitor price column not found", columns |-> <<>>]

\* The body of load_data on a cache miss.  returned = FALSE is st.stop():
\* the script run ends inside the call and nothing is returned or cached.
\* st.stop() raises a BaseException, which `except Exception` lets through.
LoadDataBody(f) ==
    IF ~f.exists
    THEN [returned |-> FALSE, table |-> <<>>, messages |-> <<LoadErrorMessage>>]
    ELSE LET missing == missing_columns(f.header)
             comp == competitor_col(f.header)
             warned == IF comp # "" THEN <<>> ELSE <<CompetitorWarning>>
         IN  IF missing # <<>>
             THEN [returned |-> FALSE, table |-> <<>>,
                   messages |-> <<MissingMessage(missing)>>]
             ELSE LET table == Enrich(f.rows, comp)
                  IN  IF \E i \in DOMAIN table : table[i]["Price_Ratio"] = Raised
                      THEN [returned |-> FALSE, table |-> <<>>,
                            messages |-> warned \o <<LoadErrorMessage>>]
                      ELSE [returned |-> TRUE, table |-> table, messages |-> warned]

\* A function that is not memoized never finds a stored value.
CacheNeverHit(slot) == FALSE

\* @st.cache_data, line 24: whether the slot holds the value of an earlier call.
CacheHit(slot) == slot # <<>>

\* The call load_data() of line 65: the stored value on a hit, with no read;
\* the body on a miss, whose value is stored only when it returns.
LoadData ==
    IF CacheHit(cache)
    THEN [returned |-> TRUE, table |-> cache[1], messages |-> messages,
          slot |-> cache, reads |-> 0, writes |-> 0]
    ELSE LET out == LoadDataBody(file)
         IN  [returned |-> out.returned, table |-> out.table,
              messages |-> out.messages,
              slot |-> IF out.returned THEN <<out.table>> ELSE cache,
              reads |-> 1,
              writes |-> IF out.returned THEN 1 ELSE 0]

-----------------------------------------------------------------------------
(* Sidebar, lines 118-123 *)

\* Series.unique(): the distinct cells of a column, NaN among them.
Unique(table, col) == {table[i][col] : i \in DOMAIN table}

PresentValues(table, col) ==
    {table[i][col][1] : i \in {j \in DOMAIN table : ~IsNull(table[j][col])}}

\* Series.min() / Series.max() skip NaN, and are NaN when nothing is left.
ColMin(table, col) ==
    LET S == PresentValues(table, col)
    IN  IF S = {} THEN NaN ELSE Val(CHOOSE x \in S : \A y \in S : x <= y)

ColMax(table, col) ==
    LET S == PresentValues(table, col)
    IN  IF S = {} THEN NaN ELSE Val(CHOOSE x \in S : \A y \in S : x >= y)

\* int(x): truncation towards zero, of a price counted in 1/PriceUnit.
IntOf(x) == Sign(x) * (Abs(x) \div PriceUnit)

\* Lines 122-123: the slider's bounds, which are also its default value.
SliderDefault(table) ==
    <<IntOf(ColMin(table, "Price")[1]), IntOf(ColMax(table, "Price")[1])>>

\* The values the slider lets the user pick.
SliderValues(table) ==
    LET d == SliderDefault(table)
    IN  {p \in (d[1]..d[2]) \X (d[1]..d[2]) : p[1] <= p[2]}

-----------------------------------------------------------------------------
(* Filter, lines 126-132 *)

\* Series >= scalar and Series <= scalar: False on NaN.
CellGe(c, n) == ~IsNull(c) /\ c[1] >= n * PriceUnit

\* An exclusive upper end: Series < scalar.
CellLt(c, n) == ~IsNull(c) /\ c[1] < n * PriceUnit

CellLe(c, n) == ~IsNull(c) /\ c[1] <= n * PriceUnit

\* The boolean mask: the conjunction of the five series.
Mask(table, cities, months, diseases, range) ==
    [i \in DOMAIN table |->
        /\ table[i]["City"] \in cities
        /\ table[i]["Month"] \in months
        /\ table[i]["Disease"] \in diseases
        /\ CellGe(table[i]["Price"], range[1])
        /\ CellLe(table[i]["Price"], range[2])]

\* df[mask]: the rows whose mask is True, in their order.
RECURSIVE Take(_, _)
Take(table, mask) ==
    IF table = <<>> THEN <<>>
    ELSE (IF Head(mask) THEN <<Head(table)>> ELSE <<>>)
            \o Take(Tail(table), Tail(mask))

\* Filtering the view the previous run left, as an incremental filter would.
FilterSourceIncremental(loaded, previous_view) ==
    IF run = "none" THEN loaded ELSE previous_view

\* The frame the filter expression indexes: df, the loaded table, whatever
\* the previous run's view was.
FilterSource(loaded, previous_view) == loaded

ApplyFilters(table, cities, months, diseases, range) ==
    Take(table, Mask(table, cities, months, diseases, range))

-----------------------------------------------------------------------------
(* Group-by sums, lines 142-156 and 198-211 *)

\* Series.sum(): NaN is skipped, the empty sum is 0.
RECURSIVE SumCol(_, _)
SumCol(table, col) ==
    IF table = <<>> THEN 0
    ELSE (IF IsNull(Head(table)[col]) THEN 0 ELSE Head(table)[col][1])
            + SumCol(Tail(table), col)

\* The group keys with NaN kept, as groupby(..., dropna=False) would.
GroupKeysKeepNaN(table, key) == Unique(table, key)

\* The group keys of groupby(key): dropna defaults to True, so a row whose
\* key is NaN belongs to no group.
GroupKeys(table, key) == Unique(table, key) \ {NaN}

\* groupby(key)[metric].sum().reset_index(): one (key, sum) row per group.
GroupBySum(table, key, metric) ==
    {<<k, SumCol(SelectSeq(table, LAMBDA r : r[key] = k), metric)>> :
        k \in GroupKeys(table, key)}

NoCharts == [orders_by_city |-> {}, orders_by_disease |-> {},
             orders_by_month |-> {}, revenue_by_city |-> {}]

Charts(table) ==
    [orders_by_city |-> GroupBySum(table, "City", "Orders"),
     orders_by_disease |-> GroupBySum(table, "Disease", "Orders"),
     orders_by_month |-> GroupBySum(table, "Month", "Orders"),
     revenue_by_city |-> GroupBySum(table, "City", "Revenue")]

-----------------------------------------------------------------------------
(* Input files *)

Columns ==
    {required_columns[i] : i \in DOMAIN required_columns}
        \cup {possible_names[i] : i \in DOMAIN possible_names}

RequiredSet == {required_columns[i] : i \in DOMAIN required_columns}
AliasSet == {possible_names[i] : i \in DOMAIN possible_names}

\* The row of a file with header h that holds the cells of rec.
Row(rec, h) ==
    [c \in h |->
        CASE c = "City" -> rec.City
          [] c = "Month" -> rec.Month
          [] c = "Disease" -> rec.Disease
          [] c = "Medicine" -> rec.Medicine
          [] c = "Orders" -> rec.Orders
          [] c = "Price" -> rec.Price
          [] c = "Competitor_Price" -> rec.A1
          [] c = "Competitor Price" -> rec.A2
          [] c = "Comp_Price" -> rec.A3
          [] c = "CompetitorPrice" -> rec.A4]

RowsOver(h, dom) ==
    {Row(rec, h) : rec \in
        [City : dom.City, Month : dom.Month, Disease : dom.Disease,
         Medicine : dom.Medicine, Orders : dom.Orders, Price : dom.Price,
         A1 : dom.A1, A2 : dom.A2, A3 : dom.A3, A4 : dom.A4]}

Tables(rowset) == UNION {[1..n -> rowset] : n \in 0..MaxRows}

FilesOver(headers, dom) ==
    UNION {{[header |-> h, rows |-> t, exists |-> TRUE] :
                t \in Tables(RowsOver(h, dom))} : h \in headers}

\* Files for the filter: every required column, no competitor price; city,
\* month and price vary, prices 9.5, 10.5 and 11 rupees at PriceUnit = 2.
FilterDomain ==
    [City |-> {Val("Delhi"), Val("Mumbai")}, Month |-> {Val("Jan"), Val("Feb")},
     Disease |-> {Val("Flu")}, Medicine |-> {Val("Paracetamol")},
     Orders |-> {Val(4)}, Price |-> {Val(19), Val(21), Val(22)},
     A1 |-> {NaN}, A2 |-> {NaN}, A3 |-> {NaN}, A4 |-> {NaN}]

FilterFiles == {NoFile} \cup FilesOver({RequiredSet}, FilterDomain)

\* Files for the group-by sums: cities with a missing one among them,
\* orders and prices (10 and 11 rupees at PriceUnit = 2) vary.
AggDomain ==
    [City |-> {Val("Delhi"), Val("Mumbai"), NaN}, Month |-> {Val("Jan")},
     Disease |-> {Val("Flu")}, Medicine |-> {Val("Paracetamol")},
     Orders |-> {Val(2), Val(5)}, Price |-> {Val(20), Val(22)},
     A1 |-> {NaN}, A2 |-> {NaN}, A3 |-> {NaN}, A4 |-> {NaN}]

AggFiles == {NoFile} \cup FilesOver({RequiredSet}, AggDomain)

\* Files for the schema check: every subset of the required columns as
\* header with fully valued rows, and under the full header rows with at
\* most one missing value among the six required cells.
BaseDomain ==
    [City |-> {Val("Delhi")}, Month |-> {Val("Jan")},
     Disease |-> {Val("Flu")}, Medicine |-> {Val("Paracetamol")},
     Orders |-> {Val(2)}, Price |-> {Val(20), Val(22)},
     A1 |-> {NaN}, A2 |-> {NaN}, A3 |-> {NaN}, A4 |-> {NaN}]

NullDomain ==
    [City |-> {Val("Delhi"), NaN}, Month |-> {Val("Jan"), NaN},
     Disease |-> {Val("Flu"), NaN}, Medicine |-> {Val("Paracetamol"), NaN},
     Orders |-> {Val(2), NaN}, Price |-> {Val(20), Val(22), NaN},
     A1 |-> {NaN}, A2 |-> {NaN}, A3 |-> {NaN}, A4 |-> {NaN}]

NullRows ==
    {r \in RowsOver(RequiredSet, NullDomain) :
        Cardinality({c \in RequiredSet : IsNull(r[c])}) <= 1}

LoadFiles ==
    {NoFile}
        \cup FilesOver(SUBSET RequiredSet, BaseDomain)
        \cup {[header |-> RequiredSet, rows |-> t, exists |-> TRUE] :
                t \in Tables(NullRows)}

\* Files for the derived columns: the full required header with every
\* subset of the four aliases; each alias column has values of its own
\* (120 or 0, 130, 140, 150, in rupees at PriceUnit = 2), prices are 100
\* and 101 rupees, orders 10 and 3.
DeriveDomain ==
    [City |-> {Val("Delhi")}, Month |-> {Val("Jan")},
     Disease |-> {Val("Flu")}, Medicine |-> {Val("Paracetamol")},
     Orders |-> {Val(10), Val(3)}, Price |-> {Val(200), Val(202)},
     A1 |-> {Val(240), Val(0)}, A2 |-> {Val(260)}, A3 |-> {Val(280)},
     A4 |-> {Val(300)}]

DeriveFiles ==
    {NoFile}
        \cup FilesOver({RequiredSet \cup a : a \in SUBSET AliasSet}, DeriveDomain)

-----------------------------------------------------------------------------
(* The script *)

InitWith(files) ==
    /\ file \in files
    /\ cache = <<>>
    /\ fileReads = 0
    /\ cacheWrites = 0
    /\ run = "none"
    /\ status = "idle"
    /\ messages = <<>>
    /\ df = <<>>
    /\ selected_cities = {}
    /\ selected_months = {}
    /\ selected_diseases = {}
    /\ price_range = <<>>
    /\ filtered_df = <<>>
    /\ charts = NoCharts

\* One run of the script, lines 65-218.  c, m, d and pr are the widgets'
\* session values; a widget rendered for the first time takes its default.
RunScript(c, m, d, pr) ==
    LET call == LoadData
        first == run = "none"
    IN  /\ cache' = call.slot
        /\ fileReads' = fileReads + call.reads
        /\ cacheWrites' = cacheWrites + call.writes
        /\ messages' = call.messages
        /\ run' = IF first THEN "first" ELSE "rerun"
        /\ UNCHANGED file
        /\ IF ~call.returned
           THEN /\ status' = "stopped"
                /\ df' = <<>>
                /\ filtered_df' = <<>>
                /\ charts' = NoCharts
                /\ UNCHANGED <<selected_cities, selected_months,
                               selected_diseases, price_range>>
           ELSE /\ df' = call.table
                /\ selected_cities' = IF first THEN Unique(df', "City") ELSE c
                /\ selected_months' = IF first THEN Unique(df', "Month") ELSE m
                /\ selected_diseases' =
                        IF first THEN Unique(df', "Disease") ELSE d
                /\ IF IsNull(ColMin(df', "Price"))
                   THEN \* int(nan) raises ValueError at line 122
                        /\ status' = "error"
                        /\ filtered_df' = <<>>
                        /\ charts' = NoCharts
                        /\ UNCHANGED price_range
                   ELSE /\ status' = "ok"
                        /\ price_range' =
                              IF price_range = <<>> THEN SliderDefault(df')
                              ELSE pr
                        /\ filtered_df' =
                              ApplyFilters(FilterSource(df', filtered_df),
                                           selected_cities', selected_months',
                                           selected_diseases', price_range')
                        /\ charts' = Charts(filtered_df')

\* The page is opened.
FirstRun ==
    /\ run = "none"
    /\ RunScript({}, {}, {}, <<>>)

\* The user changes the city multiselect.
ChangeCities ==
    /\ status \in {"ok", "error"}
    /\ \E c \in SUBSET Unique(df, "City") \ {selected_cities} :
          RunScript(c, selected_months, selected_diseases, price_range)

\* The user changes the month multiselect.
ChangeMonths ==
    /\ status \in {"ok", "error"}
    /\ \E m \in SUBSET Unique(df, "Month") \ {selected_months} :
          RunScript(selected_cities, m, selected_diseases, price_range)

\* The user changes the disease multiselect.
ChangeDiseases ==
    /\ status \in {"ok", "error"}
    /\ \E d \in SUBSET Unique(df, "Disease") \ {selected_diseases} :
          RunScript(selected_cities, selected_months, d, price_range)

\* The user moves the price slider.
ChangePriceRange ==
    /\ status = "ok"
    /\ \E pr \in SliderValues(df) \ {price_range} :
          RunScript(selected_cities, selected_months, selected_diseases, pr)

Next ==
    \/ FirstRun
    \/ ChangeCities
    \/ ChangeMonths
    \/ ChangeDiseases
    \/ ChangePriceRange

Spec == InitWith(FilterFiles) /\ [][Next]_vars

SpecAgg == InitWith(AggFiles) /\ [][Next]_vars

SpecLoad == InitWith(LoadFiles) /\ [][Next]_vars

SpecDerive == InitWith(DeriveFiles) /\ [][Next]_vars

-----------------------------------------------------------------------------
(* Filter correctness *)

\* The four predicates of the filter on one row, under the session's criteria.
Satisfies(r) ==
    /\ r["City"] \in selected_cities
    /\ r["Month"] \in selected_months
    /\ r["Disease"] \in selected_diseases
    /\ ~IsNull(r["Price"])
    /\ price_range[1] * PriceUnit <= r["Price"][1]
    /\ r["Price"][1] <= price_range[2] * PriceUnit

Hits == {i \in DOMAIN df : Satisfies(df[i])}

Rank(i) == Cardinality({j \in Hits : j <= i})

\* C1: after a run that reached the filter, filtered_df holds exactly the
\* rows of df that satisfy all four predicates (city, month and disease
\* selected, lo <= Price <= hi): each such row once, at the position its
\* rank among the satisfying rows gives it, and no other row.
C1_FilterExact ==
    status = "ok" =>
        /\ Len(filtered_df) = Cardinality(Hits)
        /\ \A i \in Hits : filtered_df[Rank(i)] = df[i]
        /\ \A k \in DOMAIN filtered_df : Satisfies(filtered_df[k])

\* A run kept the second of two rows and dropped the first, whose price is
\* the upper end of the range.
C1_Witness ==
    /\ status = "ok"
    /\ Len(df) = 2
    /\ Hits = {2}
    /\ filtered_df = <<df[2]>>
    /\ df[2]["Price"][1] = price_range[2] * PriceUnit
    /\ df[1]["City"] \notin selected_cities

-----------------------------------------------------------------------------
(* Load once *)

\* C4: the file is read at most once and the cache slot written at most
\* once; the first call of load_data reads the file, a call that returns
\* fills the slot with the table it returns, and from then on no run reads
\* the file, writes the slot or sees another table.
C4_LoadOnce ==
    /\ [](/\ fileReads <= 1
          /\ cacheWrites <= 1
          /\ run # "none" => fileReads = 1
          /\ status \in {"ok", "error"} => cacheWrites = 1 /\ cache = <<df>>)
    /\ [][run # "none" =>
            /\ fileReads' = fileReads
            /\ cacheWrites' = cacheWrites
            /\ cache' = cache
            /\ df' = df]_vars

\* A rerun after a filter change, served from the cache.
C4_Witness ==
    /\ run = "rerun"
    /\ status = "ok"
    /\ fileReads = 1
    /\ Len(df) = 2

-----------------------------------------------------------------------------
(* The loaded table is never changed *)

\* C8: once load_data has returned, no run changes the cached table or df,
\* and after every run that reached the filter the view is the filter of
\* the whole cached table under the current criteria alone.
C8_SourceUnchanged ==
    /\ [](status = "ok" =>
            /\ df = cache[1]
            /\ filtered_df = ApplyFilters(cache[1], selected_cities,
                                selected_months, selected_diseases, price_range))
    /\ [][cache # <<>> => cache' = cache /\ df' = df]_vars

\* A rerun whose criteria admit both rows of the table: rows an earlier
\* run's criteria may have excluded are back.
C8_Witness ==
    /\ run = "rerun"
    /\ status = "ok"
    /\ Len(df) = 2
    /\ filtered_df = df
    /\ df[1]["City"] # df[2]["City"]

-----------------------------------------------------------------------------
(* Default criteria *)

\* C10: on the first run, under the criteria the sidebar seeds, the
\* filtered table is the whole loaded table.
C10_DefaultShowsAll ==
    (run = "first" /\ status = "ok") => filtered_df = df

-----------------------------------------------------------------------------
(* Missing values *)

HeaderComplete == RequiredSet \subseteq file.header

\* C2 as claimed: a table that load_data returned has no missing value in
\* the six required columns.
C2_NoNullsAfterLoad ==
    status \in {"ok", "error"} =>
        \A i \in DOMAIN df : \A c \in RequiredSet : ~IsNull(df[i][c])

\* C2 as amended: load_data fails exactly when the file cannot be read or
\* its header lacks a required column; otherwise it returns one row per
\* row of the file, each with the file's cells of the six required
\* columns, the missing ones still missing.
C2_NullsKept ==
    run # "none" =>
        /\ status = "stopped" <=> ~(file.exists /\ HeaderComplete)
        /\ status # "stopped" =>
              /\ Len(df) = Len(file.rows)
              /\ \A i \in DOMAIN df : \A c \in RequiredSet :
                    df[i][c] = file.rows[i][c]

\* A returned table with a missing city in one row and a missing order
\* count in the other.
C2_Witness ==
    /\ status = "ok"
    /\ Len(df) = 2
    /\ IsNull(df[1]["City"])
    /\ IsNull(df[2]["Orders"])

-----------------------------------------------------------------------------
(* Schema failure *)

\* C3: when the header lacks required columns, the run ends in st.stop()
\* with one error element whose columns are exactly the required columns the
\* header lacks; no table is returned, cached or enriched.
C3_SchemaFailure ==
    (run # "none" /\ file.exists /\ ~HeaderComplete) =>
        /\ status = "stopped"
        /\ Len(messages) = 1
        /\ messages[1].level = "error"
        /\ messages[1].what = "Missing required columns"
        /\ {messages[1].columns[i] : i \in DOMAIN messages[1].columns}
                = RequiredSet \ file.header
        /\ df = <<>>
        /\ cache = <<>>
        /\ cacheWrites = 0
        /\ filtered_df = <<>>

\* A failed load that names two missing columns and leaves out the four
\* present ones.
C3_Witness ==
    /\ status = "stopped"
    /\ file.header = {"City", "Disease", "Medicine", "Orders"}
    /\ Len(file.rows) = 2
    /\ messages = <<MissingMessage(<<"Month", "Price">>)>>

-----------------------------------------------------------------------------
(* Group-by sums *)

RECURSIVE SumGroups(_)
SumGroups(S) ==
    IF S = {} THEN 0
    ELSE LET g == CHOOSE x \in S : TRUE
         IN  g[2] + SumGroups(S \ {g})

\* The metric summed over all rows of a view, missing values counting 0.
RECURSIVE SumAll(_, _)
SumAll(table, metric) ==
    IF table = <<>> THEN 0
    ELSE (IF IsNull(Head(table)[metric]) THEN 0 ELSE Head(table)[metric][1])
            + SumAll(Tail(table), metric)

\* The same over the rows whose cell in column key is present.
RECURSIVE SumKeyed(_, _, _)
SumKeyed(table, metric, key) ==
    IF table = <<>> THEN 0
    ELSE (IF IsNull(Head(table)[metric]) \/ IsNull(Head(table)[key])
          THEN 0 ELSE Head(table)[metric][1])
            + SumKeyed(Tail(table), metric, key)

GroupsOf(chart, cell) == {g \in chart : g[1] = cell}

ChartKey(name) ==
    CASE name = "orders_by_city" -> "City"
      [] name = "orders_by_disease" -> "Disease"
      [] name = "orders_by_month" -> "Month"
      [] name = "revenue_by_city" -> "City"

ChartMetric(name) == IF name = "revenue_by_city" THEN "Revenue" ELSE "Orders"

ChartNames == DOMAIN NoCharts

\* C5 as claimed: for each of the four group-by sums, the group sums add up
\* to the metric's sum over the whole filtered table, and every row of the
\* filtered table is in exactly one group.
C5_Conservation ==
    status = "ok" =>
        \A name \in ChartNames :
            /\ SumGroups(charts[name])
                  = SumAll(filtered_df, ChartMetric(name))
            /\ \A i \in DOMAIN filtered_df :
                  Cardinality(GroupsOf(charts[name],
                                       filtered_df[i][ChartKey(name)])) = 1

\* C5 as amended: the group sums add up to the metric's sum over the rows
\* of the filtered table whose group key is present; each such row is in
\* exactly one group, and a row whose key is missing is in none.
C5_ConservationOverKeyedRows ==
    status = "ok" =>
        \A name \in ChartNames :
            /\ SumGroups(charts[name])
                  = SumKeyed(filtered_df, ChartMetric(name), ChartKey(name))
            /\ \A i \in DOMAIN filtered_df :
                  Cardinality(GroupsOf(charts[name],
                                       filtered_df[i][ChartKey(name)]))
                    = IF IsNull(filtered_df[i][ChartKey(name)]) THEN 0 ELSE 1

\* A view with a city-less row and a row of Delhi: the chart has Delhi's
\* group alone, and its orders are fewer than the view's.
C5_Witness ==
    /\ status = "ok"
    /\ Len(filtered_df) = 2
    /\ IsNull(filtered_df[1]["City"])
    /\ filtered_df[2]["City"] = Val("Delhi")
    /\ charts.orders_by_city = {<<Val("Delhi"), filtered_df[2]["Orders"][1]>>}
    /\ SumGroups(charts.orders_by_city)
          < SumAll(filtered_df, "Orders")

-----------------------------------------------------------------------------
(* Derived columns *)

\* The first of the four aliases, in their order, that the header holds.
ResolvedAlias ==
    IF "Competitor_Price" \in file.header THEN "Competitor_Price"
    ELSE IF "Competitor Price" \in file.header THEN "Competitor Price"
    ELSE IF "Comp_Price" \in file.header THEN "Comp_Price"
    ELSE IF "CompetitorPrice" \in file.header THEN "CompetitorPrice"
    ELSE ""

Loaded == run # "none" /\ file.exists /\ HeaderComplete

\* Revenue = Orders * Price, Profit_Margin = 30% of Price (counted in tenths
\* of the price unit), Total_Profit = Profit_Margin * Orders, on row i.
RowMetricsRight(i) ==
    LET r == df[i]
        src == file.rows[i]
    IN  /\ r["Revenue"] = Val(src["Orders"][1] * src["Price"][1])
        /\ 100 * r["Profit_Margin"][1] = 30 * (10 * src["Price"][1])
        /\ r["Total_Profit"] = Val(r["Profit_Margin"][1] * src["Orders"][1])

\* C6: with the six required columns and none of the four aliases, load_data
\* returns (st.stop() is not reached), its only element is the warning, and
\* every row has Price_Difference 0 and Price_Ratio 1.
C6_DegradedMode ==
    (Loaded /\ file.header \cap AliasSet = {}) =>
        /\ status # "stopped"
        /\ cache = <<df>>
        /\ Len(df) = Len(file.rows)
        /\ messages = <<CompetitorWarning>>
        /\ \A i \in DOMAIN df :
              /\ df[i]["Price_Difference"] = Val(0)
              /\ df[i]["Price_Ratio"] = <<1, 1>>

\* A two-row table loaded in degraded mode.
C6_Witness ==
    /\ status = "ok"
    /\ file.header = RequiredSet
    /\ Len(df) = 2
    /\ df[1]["Price"] # df[2]["Price"]
    /\ df[2]["Price_Ratio"] = <<1, 1>>
    /\ messages[1].level = "warning"

\* C7: every row of the returned table has Revenue, Profit_Margin and
\* Total_Profit computed from its own Orders and Price, and, when an alias
\* is present, Price_Difference = competitor price - Price with the
\* competitor price read from the first alias present.
C7_DerivedColumns ==
    Loaded =>
        /\ status # "stopped"
        /\ Len(df) = Len(file.rows)
        /\ \A i \in DOMAIN df :
              /\ RowMetricsRight(i)
              /\ ResolvedAlias # "" =>
                    df[i]["Price_Difference"]
                        = Val(file.rows[i][ResolvedAlias][1]
                                - file.rows[i]["Price"][1])

\* Price 100, competitor 120 under the first alias (and 150 under the
\* last), Orders 10 give Price_Difference 20, Revenue 1000, Profit_Margin
\* 30, Total_Profit 300; the other row has another price and order count.
C7_Witness ==
    /\ status = "ok"
    /\ file.header = RequiredSet \cup {"Competitor_Price", "CompetitorPrice"}
    /\ Len(df) = 2
    /\ df[1]["Price"] = Val(100 * PriceUnit)
    /\ df[1]["Competitor_Price"] = Val(120 * PriceUnit)
    /\ df[1]["CompetitorPrice"] = Val(150 * PriceUnit)
    /\ df[1]["Orders"] = Val(10)
    /\ df[1]["Price_Difference"] = Val(20 * PriceUnit)
    /\ df[1]["Revenue"] = Val(1000 * PriceUnit)
    /\ df[1]["Profit_Margin"] = Val(30 * PriceUnit * 10)
    /\ df[1]["Total_Profit"] = Val(300 * PriceUnit * 10)
    /\ df[2]["Price"] = Val(101 * PriceUnit)
    /\ df[2]["Orders"] = Val(3)

\* C9: with an alias present and a competitor price of 0 in some row,
\* load_data returns; the ratio of such a row is infinite or missing, the
\* ratio of a row with a nonzero competitor price is Price / competitor
\* price, and the other derived columns are computed as everywhere.
C9_ZeroCompetitorPrice ==
    (Loaded /\ ResolvedAlias # ""
        /\ \E i \in DOMAIN file.rows : file.rows[i][ResolvedAlias] = Val(0)) =>
        /\ status # "stopped"
        /\ Len(df) = Len(file.rows)
        /\ \A i \in DOMAIN df :
              LET comp == file.rows[i][ResolvedAlias]
                  price == file.rows[i]["Price"]
                  ratio == df[i]["Price_Ratio"]
              IN  /\ RowMetricsRight(i)
                  /\ df[i]["Price_Difference"] = Val(comp[1] - price[1])
                  /\ comp = Val(0) => ratio \in {<<1, 0>>, <<-1, 0>>, NaN}
                  /\ comp # Val(0) =>
                        /\ Len(ratio) = 2
                        /\ ratio[2] > 0
                        /\ ratio[1] * comp[1] = ratio[2] * price[1]

\* A returned table whose first row has competitor price 0 and an infinite
\* ratio and whose second row has the ratio 100/120 = 5/6.
C9_Witness ==
    /\ status = "ok"
    /\ Len(df) = 2
    /\ "Competitor_Price" \in file.header
    /\ df[1]["Competitor_Price"] = Val(0)
    /\ df[1]["Price_Ratio"] = <<1, 0>>
    /\ df[2]["Price_Ratio"] = <<5, 6>>
    /\ df[2]["Revenue"] = Val(10 * 200)

=============================================================================
